---- MODULE Spec2Model ----
(***************************************************************************)
(* A model of the Q&A generation pipeline of Loopio-QA:                    *)
(*   document_loader.PDFLoader.load -> text_processor.TextProcessor.process *)
(*   -> qa_generator.QAGenerator.generate_qa_pairs (two thread pools,       *)
(*   _generate_questions / _generate_answer / _get_relevant_chunks) with    *)
(*   loopio_classifier.LoopioClassifier.classify, driven by main.main.     *)
(*                                                                         *)
(* Text is a sequence of one-character strings; the text-generation,       *)
(* embedding, PDF and splitting services are outside the repository and    *)
(* are modelled by the choice of their result (or of their raising).       *)
(***************************************************************************)
EXTENDS Integers, Sequences, FiniteSets, TLC

(***************************************************************************)
(* Bounds of the model.                                                    *)
(***************************************************************************)
\* uploaded files in one run
MaxFiles == 1
\* pages of one PDF
MaxPages == 2
\* chunks a splitter makes of one page
MaxSplit == 2
\* question chunks / answer chunks of one run
MaxChunks == 2
\* lines of one question response
MaxLines == 2
\* questions of one generate_qa_pairs call
MaxQuestions == 2
\* largest top_n asked of _get_relevant_chunks on its own
MaxTopN == 4
\* largest pool handed to _get_relevant_chunks on its own
MaxPool == 4
\* lines of the question response of _generate_questions on its own
MaxUnitLines == 3
\* rows of the taxonomy table
MaxRows == 2
\* paths handed to PDFLoader.load on its own
MaxPaths == 2

(***************************************************************************)
(* Program constants.                                                      *)
(***************************************************************************)
\* qa_generator.py:129  top_n=3
TopN == 3
\* main.py:155  batch_size = 15
batch_size == 15
\* main.py:14   QAGenerator(max_workers=1000, ...)
max_workers == 1000

\* An optional value is a sequence of at most one element: None is the empty one.
\* The same encoding tells a call that raised (None) from one that returned v.
None == <<>>
Some(v) == <<v>>
IsSome(o) == o # <<>>
Raised(o) == o = <<>>

(***************************************************************************)
(* Generic helpers.                                                        *)
(***************************************************************************)
Range(s) == {s[i] : i \in DOMAIN s}

Min(a, b) == IF a <= b THEN a ELSE b

\* sequences over S of length at most n
SeqsUpTo(S, n) == UNION {[1..k -> S] : k \in 0..n}

\* the sequences that list every element of the finite set S exactly once:
\* the orders in which iterating a Python set may yield its elements
Orders(S) == {s \in [1..Cardinality(S) -> S] : Range(s) = S}

RECURSIVE Flatten(_)
Flatten(ss) == IF ss = <<>> THEN <<>> ELSE Head(ss) \o Flatten(Tail(ss))

\* Prefix as s[-n:] would have it: the last n
Prefix_Last(s, n) == SubSeq(s, Len(s) - Min(n, Len(s)) + 1, Len(s))

\* s[:n] of Python for n >= 0
Prefix(s, n) == SubSeq(s, 1, Min(n, Len(s)))

(***************************************************************************)
(* str methods used by the program, on sequences of characters.            *)
(***************************************************************************)
Whitespace == {" ", "\n", "\t"}

RECURSIVE LStrip(_)
LStrip(s) == IF s # <<>> /\ Head(s) \in Whitespace THEN LStrip(Tail(s)) ELSE s

RECURSIVE RStrip(_)
RStrip(s) ==
    IF s # <<>> /\ s[Len(s)] \in Whitespace THEN RStrip(SubSeq(s, 1, Len(s) - 1)) ELSE s

\* str.strip()
Strip(s) == RStrip(LStrip(s))

\* str.startswith(p)
StartsWith(s, p) == Len(s) >= Len(p) /\ SubSeq(s, 1, Len(p)) = p

\* s[n:] of Python for n >= 0
DropFirst(s, n) == SubSeq(s, n + 1, Len(s))

Digits == <<"0", "1", "2", "3", "4", "5", "6", "7", "8", "9">>

\* str(n) for n >= 0
RECURSIVE IntToStr(_)
IntToStr(n) ==
    IF n < 10 THEN <<Digits[n + 1]>> ELSE IntToStr(n \div 10) \o <<Digits[(n % 10) + 1]>>

\* sep.join(parts)
RECURSIVE Join(_, _)
Join(parts, sep) ==
    IF parts = <<>> THEN <<>>
    ELSE IF Len(parts) = 1 THEN parts[1]
    ELSE parts[1] \o sep \o Join(Tail(parts), sep)

CommaSpace == <<",", " ">>


(***************************************************************************)
(* document_loader.py                                                      *)
(***************************************************************************)
\* names of the files a user may upload
UploadNames == <<"a.pdf", "b.pdf", "c.pdf", "d.pdf">>

\* main.py:132  temp_file = f"temp_{uploaded_file.name}": a path without directory
TempFile(name) == [dir |-> "", name |-> "temp_" \o name]

\* os.path.basename
Basename(path) == path.name

\* word counts of the text of one PDF page; 0 is a page without extractable text
PageWords == {0, 900}

\* what PyPDFLoader(file_path).load() may do: raise, or yield the pages of the file
PdfOutcomes == {None} \cup {Some(pages) : pages \in SeqsUpTo(PageWords, MaxPages)}

\* PyPDFLoader's documents: one per page, metadata source = the path and
\* page = the 0-based page index
PyPDFLoad(file_path, pages) ==
    [i \in 1..Len(pages) |->
        [words |-> pages[i], source |-> file_path, page |-> i - 1]]

\* load_single_pdf: (file_path, docs) with page_number, source and file_path set,
\* or (file_path, None) when loading raised
load_single_pdf(file_path, outcome) ==
    IF Raised(outcome) THEN <<file_path, None>>
    ELSE LET docs == PyPDFLoad(file_path, outcome[1])
         IN  <<file_path,
               Some([i \in 1..Len(docs) |->
                   [words |-> docs[i].words,
                    page |-> docs[i].page,
                    page_number |-> i,
                    source |-> Basename(file_path),
                    file_path |-> file_path]])>>

\* if docs:  (None and the empty list are falsy)
Truthy(o) == IsSome(o) /\ o[1] # <<>>

\* PDFLoader.load: the dict all_docs as the sequence of its (key, value) items in
\* insertion order; file_paths holds distinct paths
RECURSIVE LoaderCollect(_)
LoaderCollect(results) ==
    IF results = <<>> THEN <<>>
    ELSE (IF Truthy(Head(results)[2]) THEN <<<<Head(results)[1], Head(results)[2][1]>>>> ELSE <<>>)
         \o LoaderCollect(Tail(results))

PDFLoader_load(file_paths, outcomes) ==
    LoaderCollect([i \in 1..Len(file_paths) |-> load_single_pdf(file_paths[i], outcomes[i])])

\* main.py:140-142  documents.extend(doc_list) over documents_dict.values()
MainDocuments(documents_dict) ==
    Flatten([i \in 1..Len(documents_dict) |-> documents_dict[i][2]])

(***************************************************************************)
(* text_processor.py                                                       *)
(***************************************************************************)
\* not text.strip(): the text is empty or whitespace only
Blank(doc) == doc.words = 0

\* TextProcessor._clean_documents
RECURSIVE clean_documents(_)
clean_documents(documents) ==
    IF documents = <<>> THEN <<>>
    ELSE (IF Blank(Head(documents)) THEN <<>> ELSE <<Head(documents)>>)
         \o clean_documents(Tail(documents))

\* SemanticChunker.split_documents([doc]) cutting doc in k pieces: every piece
\* carries a copy of doc's metadata; the words are shared out evenly
split_documents(doc, k) ==
    [i \in 1..k |->
        [doc EXCEPT !.words =
            IF i < k THEN doc.words \div k ELSE doc.words - (k - 1) * (doc.words \div k)]]

\* TextProcessor.process, with the number of pieces each splitter makes of each
\* cleaned document (qcut, acut) as the splitters' choice
process(documents, qcut, acut) ==
    LET cleaned_docs == clean_documents(documents)
    IN  <<Flatten([i \in 1..Len(cleaned_docs) |-> split_documents(cleaned_docs[i], qcut[i])]),
          Flatten([i \in 1..Len(cleaned_docs) |-> split_documents(cleaned_docs[i], acut[i])])>>


(***************************************************************************)
(* More str methods.                                                       *)
(***************************************************************************)
\* s.split(ch) for a one-character separator: always at least one part
RECURSIVE SplitOn(_, _)
SplitOn(s, ch) ==
    IF \A i \in DOMAIN s : s[i] # ch THEN <<s>>
    ELSE LET i == CHOOSE j \in DOMAIN s : s[j] = ch /\ \A k \in 1..(j - 1) : s[k] # ch
         IN  <<SubSeq(s, 1, i - 1)>> \o SplitOn(SubSeq(s, i + 1, Len(s)), ch)

\* s.strip(ch) for one character ch
RECURSIVE StripChar(_, _)
StripChar(s, ch) ==
    IF s # <<>> /\ Head(s) = ch THEN StripChar(Tail(s), ch)
    ELSE IF s # <<>> /\ s[Len(s)] = ch THEN StripChar(SubSeq(s, 1, Len(s) - 1), ch)
    ELSE s

\* ", ".join(names) for names that are strings
RECURSIVE JoinNames(_)
JoinNames(names) ==
    IF names = <<>> THEN ""
    ELSE IF Len(names) = 1 THEN names[1]
    ELSE names[1] \o ", " \o JoinNames(Tail(names))

(***************************************************************************)
(* loopio_classifier.py                                                    *)
(***************************************************************************)
\* the labels are text like the labels read from a response
Unclassified == <<"U", "n", "c", "l", "a", "s", "s", "i", "f", "i", "e", "d">>
General == <<"G", "e", "n", "e", "r", "a", "l">>
Other == <<"O", "t", "h", "e", "r">>

DefaultClassification ==
    [stack |-> Unclassified, category |-> General, subcategory |-> Other]

StackPrefix == <<"S", "t", "a", "c", "k", ":">>
CategoryPrefix == <<"C", "a", "t", "e", "g", "o", "r", "y", ":">>
SubcategoryPrefix == <<"S", "u", "b", "c", "a", "t", "e", "g", "o", "r", "y", ":">>

\* line.split(":")[1].strip().strip('"')
LabelOf(line) == StripChar(Strip(SplitOn(line, ":")[2]), "\"")

\* LoopioClassifier._parse_response: the loop over the lines of the response
RECURSIVE parse_lines(_, _)
parse_lines(lines, classification) ==
    IF lines = <<>> THEN classification
    ELSE LET line == Head(lines)
             next == IF StartsWith(line, StackPrefix)
                         THEN [classification EXCEPT !.stack = LabelOf(line)]
                     ELSE IF StartsWith(line, CategoryPrefix)
                         THEN [classification EXCEPT !.category = LabelOf(line)]
                     ELSE IF StartsWith(line, SubcategoryPrefix)
                         THEN [classification EXCEPT !.subcategory = LabelOf(line)]
                     ELSE classification
         IN  parse_lines(Tail(lines), next)

\* LoopioClassifier._parse_response
parse_response(response) == parse_lines(SplitOn(response, "\n"), DefaultClassification)

\* the texts the classifier's text-generation call may return
ClassifierTexts ==
    { StackPrefix \o <<" ", "\"", "M", "\"", "\n">>
        \o CategoryPrefix \o <<" ", "S", "\n">>
        \o SubcategoryPrefix \o <<" ", "\"", "D", "\"">> }

\* what self.llm.invoke may do in classify: raise, or return a text
ClassifierOutcomes == {None} \cup {Some(t) : t \in ClassifierTexts}

\* classify with an except branch that returns blank labels
classify_BlankOnError(question, answer, outcome) ==
    IF Raised(outcome) THEN [stack |-> <<>>, category |-> <<>>, subcategory |-> <<>>]
    ELSE parse_response(outcome[1])

\* LoopioClassifier.classify
classify(question, answer, outcome) ==
    IF Raised(outcome) THEN DefaultClassification ELSE parse_response(outcome[1])

(***************************************************************************)
(* qa_generator.py                                                         *)
(***************************************************************************)
\* calculate_questions_per_chunk with the thresholds themselves in the upper bands
calculate_questions_per_chunk_AtLeast(chunk) ==
    LET word_count == chunk.words
    IN  IF word_count >= 500 THEN 4 ELSE IF word_count >= 300 THEN 3 ELSE 2

\* generate_qa_pairs.calculate_questions_per_chunk
calculate_questions_per_chunk(chunk) ==
    LET word_count == chunk.words
    IN  IF word_count > 500 THEN 4 ELSE IF word_count > 300 THEN 3 ELSE 2

QPrefix == <<"Q", ":">>
APrefix == <<"A", ":">>

\* the lines a question response is made of
QLines == { <<"Q", ":", " ", "a">>, <<" ", "Q", ":", "b", " ">>, <<"n", "o">> }

\* the texts the question call may return: up to MaxLines lines joined by newlines
QuestionTexts == {Join(ls, <<"\n">>) : ls \in SeqsUpTo(QLines, MaxLines)}

QuestionOutcomes == {None} \cup {Some(t) : t \in QuestionTexts}

\* _generate_questions, lines 113-119: the loop over the lines of the response
RECURSIVE question_lines(_)
question_lines(lines) ==
    IF lines = <<>> THEN <<>>
    ELSE LET line == Strip(Head(lines))
         IN  (IF StartsWith(line, QPrefix) THEN <<Strip(DropFirst(line, 2))>> ELSE <<>>)
             \o question_lines(Tail(lines))

\* _generate_questions without the test of line 104
generate_questions_NoBlankCheck(chunk, num_questions, outcome) ==
    IF Raised(outcome) THEN <<>> ELSE question_lines(SplitOn(outcome[1], "\n"))

\* QAGenerator._generate_questions; outcome is what self.llm.invoke does
generate_questions(chunk, num_questions, outcome) ==
    IF Blank(chunk) THEN <<>>
    ELSE IF Raised(outcome) THEN <<>>
    ELSE question_lines(SplitOn(outcome[1], "\n"))

\* vectorstore.similarity_search(question, k) over an index of chunks: k of them
\* (all of them when there are fewer), each once, in the order of the ranking
similarity_search(chunks, k) ==
    LET n == Min(k, Len(chunks))
    IN  {[i \in 1..n |-> chunks[idx[i]]] :
            idx \in {f \in [1..n -> DOMAIN chunks] : \A i, j \in 1..n : f[i] = f[j] => i = j}}

\* what FAISS.from_documents + similarity_search may do: raise, or return a ranking
SearchOutcomes(chunks, top_n) ==
    {None} \cup {Some(r) : r \in similarity_search(chunks, top_n)}

\* _get_relevant_chunks with a fallback that returns the whole pool
get_relevant_chunks_NoCut(question, chunks, top_n, outcome) ==
    IF chunks = <<>> THEN <<>>
    ELSE IF Raised(outcome) THEN chunks
    ELSE outcome[1]

\* QAGenerator._get_relevant_chunks
get_relevant_chunks(question, chunks, top_n, outcome) ==
    IF chunks = <<>> THEN <<>>
    ELSE IF Raised(outcome) THEN Prefix(chunks, top_n)
    ELSE outcome[1]

\* the texts the answer call may return
AnswerTexts ==
    { <<>>, <<" ">>, APrefix, APrefix \o <<" ">>, <<" ">> \o APrefix \o <<" ", "x", " ">>,
      <<"x">> }

AnswerOutcomes == {None} \cup {Some(t) : t \in AnswerTexts}

\* _generate_answer, lines 155-157
answer_text(content) ==
    LET answer == Strip(content)
    IN  IF StartsWith(answer, APrefix) THEN Strip(DropFirst(answer, 2)) ELSE answer

\* used_pages without the + 1: the 0-based index of PyPDFLoader
used_pages_ZeroBased(relevant_chunks) == {IntToStr(c.page) : c \in Range(relevant_chunks)}

\* _generate_answer, lines 135-142: the set used_pages
used_pages(relevant_chunks) == {IntToStr(c.page + 1) : c \in Range(relevant_chunks)}

\* _generate_answer, lines 136-145: the set sources
sources(relevant_chunks) == {c.source : c \in Range(relevant_chunks)}

\* ", ".join(used_pages): the set is iterated in an order the hash seed decides
page_fields(relevant_chunks) ==
    {Join(o, CommaSpace) : o \in Orders(used_pages(relevant_chunks))}

source_fields(relevant_chunks) ==
    {JoinNames(o) : o \in Orders(sources(relevant_chunks))}

\* _generate_answer, lines 160-165: the pair before classification
make_pair(question, content, source, page) ==
    [question |-> question, answer |-> answer_text(content), source |-> source, page |-> page]

\* pair.update({...}), lines 169-179
with_classification(pair, classification) ==
    [question |-> pair.question, answer |-> pair.answer, source |-> pair.source,
     page |-> pair.page, stack |-> classification.stack,
     category |-> classification.category, subcategory |-> classification.subcategory]


\* QAGenerator._generate_answer as a whole: the pair, or None.  search, reply and
\* labels are what the three outside calls do; source and page are the joined
\* fields in the order the two sets happened to be iterated in.
generate_answer(question, context_chunks, classifier, search, reply, source, page, labels) ==
    LET relevant_chunks == get_relevant_chunks(question, context_chunks, TopN, search)
    IN  IF relevant_chunks = <<>> THEN None
        ELSE IF Raised(reply) THEN None
        ELSE LET pair == make_pair(question, reply[1], source, page)
             IN  Some(with_classification(pair,
                        IF classifier THEN classify(question, pair.answer, labels)
                        ELSE DefaultClassification))

(***************************************************************************)
(* The state.                                                              *)
(***************************************************************************)
VARIABLES
    pc,                 \* where the dispatching thread is
    has_classifier,     \* QAGenerator.classifier is not None
    uploaded_files,     \* main: the names of the uploaded files
    documents,          \* the page documents handed to TextProcessor.process
    ques_gen_chunks,    \* process()[0]
    ans_gen_chunks,     \* process()[1], the context pool of every answer
    batch_start,        \* main: i of the batch loop
    batch_chunks,       \* generate_qa_pairs: its argument ques_gen_chunks
    question_futures,   \* generate_qa_pairs: the tasks of the first pool
    all_questions,      \* generate_qa_pairs: all_questions
    answer_futures,     \* generate_qa_pairs: the tasks of the second pool
    cursor,             \* generate_qa_pairs: futures the collecting loop has consumed
    qa_pairs,           \* generate_qa_pairs: qa_pairs, returned at the end
    session_qa_pairs,   \* main: st.session_state.qa_pairs
    status_text,        \* main: what status_text shows
    processing,         \* main: st.session_state.processing
    completed,          \* main: st.session_state.completed
    temp_files,         \* main: temp_files, the paths the handler has recorded
    disk,               \* the temp files that exist in the working directory
    call                \* one function called on its own: arguments, then result

vars == <<pc, has_classifier, uploaded_files, documents, ques_gen_chunks, ans_gen_chunks,
          batch_start, batch_chunks, question_futures, all_questions, answer_futures,
          cursor, qa_pairs, session_qa_pairs, status_text, processing, completed,
          temp_files, disk, call>>

ui_vars == <<processing, completed, temp_files, disk>>
main_vars == <<uploaded_files, batch_start, session_qa_pairs, status_text, ui_vars>>
input_vars == <<has_classifier, documents, ques_gen_chunks, ans_gen_chunks, call>>

\* the text status_text shows, with the number it quotes (0 when it quotes none)
Status(text, n) == [text |-> text, n |-> n]

\* the documents PDFLoader.load and main.py:140-142 can make of n uploaded files
LoadableDocuments(n) ==
    LET file_paths == [i \in 1..n |-> TempFile(UploadNames[i])]
    IN  {MainDocuments(PDFLoader_load(file_paths, outcomes)) :
            outcomes \in [1..n -> PdfOutcomes]}

Idle ==
    /\ ques_gen_chunks = <<>>
    /\ ans_gen_chunks = <<>>
    /\ batch_start = 0
    /\ batch_chunks = <<>>
    /\ question_futures = <<>>
    /\ all_questions = <<>>
    /\ answer_futures = <<>>
    /\ cursor = 0
    /\ qa_pairs = <<>>
    /\ session_qa_pairs = <<>>
    /\ status_text = Status("", 0)

\* no run of the handler of main() is under way and none has completed
NoRun ==
    /\ processing = FALSE
    /\ completed = FALSE
    /\ temp_files = <<>>
    /\ disk = {}

NoCall == [fn |-> "", chunks |-> <<>>, top_n |-> 0, state |-> "", search_raised |-> FALSE,
           selected |-> <<>>, result |-> <<>>]

\* The pipeline called directly: process(documents), then generate_qa_pairs.
Init ==
    /\ pc = "process"
    /\ has_classifier \in BOOLEAN
    /\ uploaded_files = <<>>
    /\ documents \in UNION {LoadableDocuments(n) : n \in 0..MaxFiles}
    /\ Idle
    /\ NoRun
    /\ call = NoCall

\* The run handler of main(): the user has uploaded files and pressed Generate,
\* and the handler has saved the files (lines 123-135).
InitMain ==
    /\ pc = "load"
    /\ has_classifier \in BOOLEAN
    /\ uploaded_files \in {SubSeq(UploadNames, 1, n) : n \in 1..MaxFiles}
    /\ documents = <<>>
    /\ Idle
    /\ processing = TRUE
    /\ completed = FALSE
    /\ temp_files = [i \in 1..Len(uploaded_files) |-> TempFile(uploaded_files[i])]
    /\ disk = Range(temp_files)
    /\ call = NoCall

(***************************************************************************)
(* text_processor.py / main.py steps                                       *)
(***************************************************************************)
\* main.py:137-143: the temp files are loaded, the pages gathered
MainLoad ==
    /\ pc = "load"
    /\ \E outcomes \in [1..Len(temp_files) -> PdfOutcomes] :
         documents' = MainDocuments(PDFLoader_load(temp_files, outcomes))
    /\ status_text' = Status("Loading documents...", 0)
    /\ pc' = "process"
    /\ UNCHANGED <<call, has_classifier, uploaded_files, ques_gen_chunks, ans_gen_chunks,
                   batch_start, batch_chunks, question_futures, all_questions,
                   answer_futures, cursor, qa_pairs, session_qa_pairs, ui_vars>>

\* TextProcessor.process(documents)
Process ==
    /\ pc = "process"
    /\ LET n == Len(clean_documents(documents))
       IN  \E qcut \in [1..n -> 1..MaxSplit], acut \in [1..n -> 1..MaxSplit] :
             LET chunks == process(documents, qcut, acut)
             IN  /\ Len(chunks[1]) <= MaxChunks
                 /\ Len(chunks[2]) <= MaxChunks
                 /\ ques_gen_chunks' = chunks[1]
                 /\ ans_gen_chunks' = chunks[2]
    /\ pc' = "processed"
    /\ UNCHANGED <<call, has_classifier, uploaded_files, documents, batch_start, batch_chunks,
                   question_futures, all_questions, answer_futures, cursor, qa_pairs,
                   session_qa_pairs, status_text, ui_vars>>

\* the direct caller hands all question chunks to generate_qa_pairs
Orchestrate ==
    /\ pc = "processed"
    /\ batch_chunks' = ques_gen_chunks
    /\ pc' = "generate"
    /\ UNCHANGED <<input_vars, main_vars, question_futures, all_questions,
                   answer_futures, cursor, qa_pairs>>

\* main.py:152-167, 204: no chunks gives the warning and the run has completed,
\* else the first batch is generated
MainGenerate ==
    /\ pc = "processed"
    /\ LET total_chunks == Len(ques_gen_chunks)
       IN  IF total_chunks = 0
           THEN /\ status_text' = Status("No content chunks were extracted.", 0)
                /\ completed' = TRUE
                /\ pc' = "completed"
                /\ UNCHANGED batch_chunks
           ELSE /\ status_text' = Status("Generating Q&A pairs...", 0)
                /\ batch_chunks' = SubSeq(ques_gen_chunks, 1, Min(batch_size, total_chunks))
                /\ pc' = "generate"
                /\ UNCHANGED completed
    /\ batch_start' = 0
    /\ UNCHANGED <<input_vars, uploaded_files, question_futures, all_questions,
                   answer_futures, cursor, qa_pairs, session_qa_pairs, processing,
                   temp_files, disk>>

\* main.py:169-204: the batch's pairs are added; the next batch, or completion
MainBatchDone ==
    /\ pc = "returned"
    /\ LET new_pairs == qa_pairs
           total_chunks == Len(ques_gen_chunks)
           i == batch_start + batch_size
           pairs == IF new_pairs # <<>> THEN session_qa_pairs \o new_pairs
                    ELSE session_qa_pairs
       IN  /\ session_qa_pairs' = pairs
           /\ batch_start' = i
           /\ IF i < total_chunks
              THEN /\ batch_chunks' =
                          SubSeq(ques_gen_chunks, i + 1, Min(i + batch_size, total_chunks))
                   /\ pc' = "generate"
                   /\ UNCHANGED <<status_text, completed>>
              ELSE /\ status_text' = Status("Completed! Generated", Len(pairs))
                   /\ completed' = TRUE
                   /\ pc' = "completed"
                   /\ UNCHANGED batch_chunks
    /\ UNCHANGED <<input_vars, uploaded_files, question_futures, all_questions,
                   answer_futures, cursor, qa_pairs, processing, temp_files, disk>>


(***************************************************************************)
(* QAGenerator.generate_qa_pairs                                           *)
(***************************************************************************)
Running(futures) == {i \in DOMAIN futures : futures[i].state \in {"running", "classifying"}}

\* a worker of the pool is free to take a queued task
WorkerFree(futures) == Cardinality(Running(futures)) < max_workers

\* a result taken without waiting for the task
FutureDone_NoWait(future) == TRUE

\* future.result() returns: the task has finished
FutureDone(future) == future.state = "done"

\* leaving the with block: executor.shutdown(wait=True) has returned
PoolDrained(futures) == \A i \in DOMAIN futures : FutureDone(futures[i])

\* questions the finished elicitation tasks have produced
RECURSIVE CountQuestions(_)
CountQuestions(futures) ==
    IF futures = <<>> THEN 0 ELSE Len(Head(futures).result) + CountQuestions(Tail(futures))

\* lines 191-213: qa_pairs = [], one _generate_questions task per chunk
SubmitQuestions ==
    /\ pc = "generate"
    /\ qa_pairs' = <<>>
    /\ question_futures' =
          [i \in 1..Len(batch_chunks) |->
              [chunk |-> batch_chunks[i],
               num_questions |-> calculate_questions_per_chunk(batch_chunks[i]),
               state |-> "queued", invoked |-> FALSE, raised |-> FALSE, result |-> <<>>]]
    /\ all_questions' = <<>>
    /\ answer_futures' = <<>>
    /\ cursor' = 0
    /\ pc' = "collect_questions"
    /\ UNCHANGED <<input_vars, main_vars, batch_chunks>>

\* a worker starts _generate_questions (lines 104-108): a blank chunk returns []
\* at once, any other has the text generation invoked
StartQuestions(i) ==
    /\ question_futures[i].state = "queued"
    /\ WorkerFree(question_futures)
    /\ question_futures' =
          [question_futures EXCEPT ![i] =
              IF Blank(@.chunk) THEN [@ EXCEPT !.state = "done"]
              ELSE [@ EXCEPT !.state = "running", !.invoked = TRUE]]
    /\ UNCHANGED <<pc, input_vars, main_vars, batch_chunks, all_questions, answer_futures,
                   cursor, qa_pairs>>

\* the text generation returns or raises and _generate_questions returns
\* (lines 108-123)
FinishQuestions(i) ==
    /\ question_futures[i].state = "running"
    /\ \E outcome \in QuestionOutcomes :
         LET f == question_futures[i]
             questions == generate_questions(f.chunk, f.num_questions, outcome)
         IN  /\ CountQuestions(question_futures) + Len(questions) <= MaxQuestions
             /\ question_futures' =
                   [question_futures EXCEPT ![i] =
                       [@ EXCEPT !.state = "done", !.raised = Raised(outcome),
                                 !.result = questions]]
    /\ UNCHANGED <<pc, input_vars, main_vars, batch_chunks, all_questions, answer_futures,
                   cursor, qa_pairs>>

\* CollectQuestions putting the new questions in front of the list
CollectQuestions_Prepend ==
    /\ pc = "collect_questions"
    /\ cursor < Len(question_futures)
    /\ FutureDone(question_futures[cursor + 1])
    /\ all_questions' = question_futures[cursor + 1].result \o all_questions
    /\ cursor' = cursor + 1
    /\ UNCHANGED <<pc, input_vars, main_vars, batch_chunks, question_futures,
                   answer_futures, qa_pairs>>

\* lines 217-224: the next future's result is awaited and its questions added
CollectQuestions ==
    /\ pc = "collect_questions"
    /\ cursor < Len(question_futures)
    /\ FutureDone(question_futures[cursor + 1])
    /\ LET questions == question_futures[cursor + 1].result
       IN  all_questions' = IF questions # <<>> THEN all_questions \o questions
                            ELSE all_questions
    /\ cursor' = cursor + 1
    /\ UNCHANGED <<pc, input_vars, main_vars, batch_chunks, question_futures,
                   answer_futures, qa_pairs>>

\* SubmitAnswers looping over the chunks instead of the questions
SubmitAnswers_PerChunk ==
    /\ pc = "collect_questions"
    /\ cursor = Len(question_futures)
    /\ PoolDrained(question_futures)
    /\ answer_futures' =
          [a \in 1..Len(batch_chunks) |->
              [question |-> <<>>, state |-> "queued", context |-> {},
               draft |-> None, answer_raised |-> FALSE, classify_raised |-> FALSE,
               pair |-> None]]
    /\ cursor' = 0
    /\ pc' = "collect_answers"
    /\ UNCHANGED <<input_vars, main_vars, batch_chunks, question_futures, all_questions,
                   qa_pairs>>

\* lines 225-236: the first pool is shut down, then one _generate_answer task per
\* question is submitted to the second
SubmitAnswers ==
    /\ pc = "collect_questions"
    /\ cursor = Len(question_futures)
    /\ PoolDrained(question_futures)
    /\ answer_futures' =
          [a \in 1..Len(all_questions) |->
              [question |-> all_questions[a], state |-> "queued", context |-> {},
               draft |-> None, answer_raised |-> FALSE, classify_raised |-> FALSE,
               pair |-> None]]
    /\ cursor' = 0
    /\ pc' = "collect_answers"
    /\ UNCHANGED <<input_vars, main_vars, batch_chunks, question_futures, all_questions,
                   qa_pairs>>

\* a worker starts _generate_answer
StartAnswer(a) ==
    /\ answer_futures[a].state = "queued"
    /\ WorkerFree(answer_futures)
    /\ answer_futures' = [answer_futures EXCEPT ![a] = [@ EXCEPT !.state = "running"]]
    /\ UNCHANGED <<pc, input_vars, main_vars, batch_chunks, question_futures,
                   all_questions, cursor, qa_pairs>>

\* _generate_answer, lines 127-179 up to the call of the classifier: the context
\* is selected, the answer generated and the pair built; None when nothing was
\* selected or the generation raised
Answer(a) ==
    /\ answer_futures[a].state = "running"
    /\ \E search \in SearchOutcomes(ans_gen_chunks, TopN), reply \in AnswerOutcomes :
         LET f == answer_futures[a]
             relevant_chunks == get_relevant_chunks(f.question, ans_gen_chunks, TopN, search)
         IN  IF relevant_chunks = <<>>
             THEN answer_futures' = [answer_futures EXCEPT ![a] = [@ EXCEPT !.state = "done"]]
             ELSE IF Raised(reply)
             THEN answer_futures' =
                     [answer_futures EXCEPT ![a] =
                         [@ EXCEPT !.state = "done", !.answer_raised = TRUE]]
             ELSE \E source \in source_fields(relevant_chunks),
                     page \in page_fields(relevant_chunks) :
                    LET pair == make_pair(f.question, reply[1], source, page)
                    IN  answer_futures' =
                           [answer_futures EXCEPT ![a] =
                               IF has_classifier
                               THEN [@ EXCEPT !.state = "classifying",
                                              !.context = Range(relevant_chunks),
                                              !.draft = Some(pair)]
                               ELSE [@ EXCEPT !.state = "done",
                                              !.context = Range(relevant_chunks),
                                              !.pair = Some(with_classification(
                                                          pair, DefaultClassification))]]
    /\ UNCHANGED <<pc, input_vars, main_vars, batch_chunks, question_futures,
                   all_questions, cursor, qa_pairs>>

\* self.classifier.classify returns (lines 168-173, 181): the pair is complete
Classify(a) ==
    /\ answer_futures[a].state = "classifying"
    /\ \E outcome \in ClassifierOutcomes :
         LET f == answer_futures[a]
             pair == f.draft[1]
             classification == classify(pair.question, pair.answer, outcome)
         IN  answer_futures' =
                [answer_futures EXCEPT ![a] =
                    [@ EXCEPT !.state = "done", !.draft = None,
                              !.classify_raised = Raised(outcome),
                              !.pair = Some(with_classification(pair, classification))]]
    /\ UNCHANGED <<pc, input_vars, main_vars, batch_chunks, question_futures,
                   all_questions, cursor, qa_pairs>>

\* CollectAnswer with a failed task ending the collection
CollectAnswer_StopAtFailure ==
    /\ pc = "collect_answers"
    /\ cursor < Len(answer_futures)
    /\ FutureDone(answer_futures[cursor + 1])
    /\ LET pair == answer_futures[cursor + 1].pair
       IN  IF IsSome(pair)
           THEN qa_pairs' = Append(qa_pairs, pair[1]) /\ cursor' = cursor + 1
           ELSE qa_pairs' = qa_pairs /\ cursor' = Len(answer_futures)
    /\ UNCHANGED <<pc, input_vars, main_vars, batch_chunks, question_futures,
                   all_questions, answer_futures>>

\* lines 239-246: the next future's result is awaited and its pair added
CollectAnswer ==
    /\ pc = "collect_answers"
    /\ cursor < Len(answer_futures)
    /\ FutureDone(answer_futures[cursor + 1])
    /\ LET pair == answer_futures[cursor + 1].pair
       IN  qa_pairs' = IF IsSome(pair) THEN Append(qa_pairs, pair[1]) ELSE qa_pairs
    /\ cursor' = cursor + 1
    /\ UNCHANGED <<pc, input_vars, main_vars, batch_chunks, question_futures,
                   all_questions, answer_futures>>

\* lines 246-248: the second pool is shut down and qa_pairs returned
ReturnPairs ==
    /\ pc = "collect_answers"
    /\ cursor = Len(answer_futures)
    /\ PoolDrained(answer_futures)
    /\ pc' = "returned"
    /\ UNCHANGED <<input_vars, main_vars, batch_chunks, question_futures, all_questions,
                   answer_futures, cursor, qa_pairs>>

\* the steps of one generate_qa_pairs call, its worker threads included
Generate ==
    \/ SubmitQuestions
    \/ \E i \in DOMAIN question_futures : StartQuestions(i)
    \/ \E i \in DOMAIN question_futures : FinishQuestions(i)
    \/ CollectQuestions
    \/ SubmitAnswers
    \/ \E a \in DOMAIN answer_futures : StartAnswer(a)
    \/ \E a \in DOMAIN answer_futures : Answer(a)
    \/ \E a \in DOMAIN answer_futures : Classify(a)
    \/ CollectAnswer
    \/ ReturnPairs

Next == Process \/ Orchestrate \/ Generate

Spec == Init /\ [][Next]_vars

NextMain == MainLoad \/ Process \/ MainGenerate \/ Generate \/ MainBatchDone

SpecMain == InitMain /\ [][NextMain]_vars


(***************************************************************************)
(* main(): the page with its Generate and Reset buttons, and the handler   *)
(* from the press of Generate to the rerun that ends it.                   *)
(***************************************************************************)
\* line 85
generate_disabled == processing \/ uploaded_files = <<>> \/ completed

\* lines 60-70: the page when first opened
InitUI ==
    /\ pc = "idle"
    /\ has_classifier \in BOOLEAN
    /\ uploaded_files = <<>>
    /\ documents = <<>>
    /\ Idle
    /\ NoRun
    /\ call = NoCall

\* lines 76-81: the user uploads files
Upload ==
    /\ pc = "idle"
    /\ uploaded_files = <<>>
    /\ uploaded_files' \in {SubSeq(UploadNames, 1, n) : n \in 1..MaxFiles}
    /\ UNCHANGED <<pc, input_vars, batch_start, session_qa_pairs, status_text, ui_vars,
                   batch_chunks, question_futures, all_questions, answer_futures,
                   cursor, qa_pairs>>

\* lines 87-92, 122-128: the Generate button, shown while not completed and
\* enabled unless generate_disabled, is pressed and the handler starts
PressGenerate ==
    /\ pc = "idle"
    /\ ~completed
    /\ ~generate_disabled
    /\ uploaded_files # <<>> /\ ~processing
    /\ processing' = TRUE
    /\ session_qa_pairs' = <<>>
    /\ completed' = FALSE
    /\ temp_files' = <<>>
    /\ pc' = "save"
    /\ UNCHANGED <<input_vars, uploaded_files, batch_start, status_text, disk, batch_chunks,
                   question_futures, all_questions, answer_futures, cursor, qa_pairs>>

\* lines 131-135 for the next uploaded file: open() creates the file, the buffer
\* is written and the path recorded; open() or the write may raise, and then
\* lines 206-209 show the error
SaveFile ==
    /\ pc = "save"
    /\ LET k == Len(temp_files) + 1
           temp_file == TempFile(uploaded_files[k])
       IN  \/ /\ disk' = disk \cup {temp_file}
              /\ temp_files' = Append(temp_files, temp_file)
              /\ pc' = IF k = Len(uploaded_files) THEN "load" ELSE "save"
              /\ UNCHANGED status_text
           \/ /\ UNCHANGED <<disk, temp_files>>
              /\ status_text' = Status("Error", 0)
              /\ pc' = "failed"
           \/ /\ disk' = disk \cup {temp_file}
              /\ UNCHANGED temp_files
              /\ status_text' = Status("Error", 0)
              /\ pc' = "failed"
    /\ UNCHANGED <<input_vars, uploaded_files, batch_start, session_qa_pairs, processing,
                   completed, batch_chunks, question_futures, all_questions,
                   answer_futures, cursor, qa_pairs>>

\* line 148 raises (a splitter's embedding call fails) and lines 206-209 show
\* the error
ProcessRaises ==
    /\ pc = "process"
    /\ clean_documents(documents) # <<>>
    /\ status_text' = Status("Error", 0)
    /\ pc' = "failed"
    /\ UNCHANGED <<input_vars, uploaded_files, batch_start, session_qa_pairs, ui_vars,
                   batch_chunks, question_futures, all_questions, answer_futures,
                   cursor, qa_pairs>>

\* lines 211-216: the recorded temp files are removed, processing is cleared
MainFinally ==
    /\ pc \in {"completed", "failed"}
    /\ disk' = disk \ Range(temp_files)
    /\ processing' = FALSE
    /\ pc' = IF pc = "completed" THEN "finished" ELSE "finished_failed"
    /\ UNCHANGED <<input_vars, uploaded_files, batch_start, session_qa_pairs, status_text,
                   completed, temp_files, batch_chunks, question_futures, all_questions,
                   answer_futures, cursor, qa_pairs>>

\* lines 100, 218, 56-119: st.rerun() runs the script again from the top: the
\* session state is kept, the locals and the status line are new
MainRerun ==
    /\ pc \in {"finished", "finished_failed", "reset"}
    /\ documents' = <<>>
    /\ ques_gen_chunks' = <<>>
    /\ ans_gen_chunks' = <<>>
    /\ batch_start' = 0
    /\ batch_chunks' = <<>>
    /\ question_futures' = <<>>
    /\ all_questions' = <<>>
    /\ answer_futures' = <<>>
    /\ cursor' = 0
    /\ qa_pairs' = <<>>
    /\ status_text' = Status("", 0)
    /\ temp_files' = <<>>
    /\ pc' = "idle"
    /\ UNCHANGED <<has_classifier, call, uploaded_files, session_qa_pairs, processing,
                   completed, disk>>

\* lines 97-99, 43-54: the Reset button, shown when completed, is pressed; the
\* new file_uploader_key empties the uploader
reset_app ==
    /\ pc = "idle"
    /\ completed
    /\ session_qa_pairs' = <<>>
    /\ processing' = FALSE
    /\ completed' = FALSE
    /\ uploaded_files' = <<>>
    /\ pc' = "reset"
    /\ UNCHANGED <<input_vars, batch_start, status_text, temp_files, disk, batch_chunks,
                   question_futures, all_questions, answer_futures, cursor, qa_pairs>>

NextUI ==
    \/ Upload
    \/ PressGenerate
    \/ SaveFile
    \/ MainLoad
    \/ Process
    \/ ProcessRaises
    \/ MainGenerate
    \/ Generate
    \/ MainBatchDone
    \/ MainFinally
    \/ MainRerun
    \/ reset_app

SpecUI == InitUI /\ [][NextUI]_vars


(***************************************************************************)
(* _get_relevant_chunks and _generate_answer called on their own.          *)
(***************************************************************************)
\* the 0-based page of the i-th chunk of the pools below, as PyPDFLoader numbers it
UnitPages == <<9, 1, 4, 1, 0, 11>>

\* chunks with distinct texts (piece), from two files; chunks 2 and 4 share a page
UnitChunk(i) ==
    [words |-> 100, page |-> UnitPages[i], page_number |-> UnitPages[i] + 1,
     source |-> IF i % 2 = 1 THEN "a.pdf" ELSE "b.pdf",
     file_path |-> TempFile(IF i % 2 = 1 THEN "a.pdf" ELSE "b.pdf"), piece |-> i]

\* the pools: up to MaxPool chunks, each at most once, in any order
UnitPools ==
    {[i \in DOMAIN idx |-> UnitChunk(idx[i])] :
        idx \in {f \in SeqsUpTo(1..MaxPool, MaxPool) :
                    \A i, j \in DOMAIN f : f[i] = f[j] => i = j}}

UnitQuestion == <<"a">>

InitUnit ==
    /\ pc = "unit"
    /\ has_classifier \in BOOLEAN
    /\ uploaded_files = <<>>
    /\ documents = <<>>
    /\ Idle
    /\ NoRun
    /\ \E fn \in {"_get_relevant_chunks", "_generate_answer"} :
         \E chunks \in UnitPools :
           \E top_n \in (IF fn = "_generate_answer" THEN {TopN} ELSE 0..MaxTopN) :
             call = [NoCall EXCEPT !.fn = fn, !.chunks = chunks, !.top_n = top_n,
                                   !.state = "called"]

\* _get_relevant_chunks(question, chunks, top_n) runs
CallGetRelevantChunks ==
    /\ call.fn = "_get_relevant_chunks"
    /\ call.state = "called"
    /\ \E search \in SearchOutcomes(call.chunks, call.top_n) :
         LET result == get_relevant_chunks(UnitQuestion, call.chunks, call.top_n, search)
         IN  call' = [call EXCEPT !.state = "returned",
                                  !.search_raised = call.chunks # <<>> /\ Raised(search),
                                  !.selected = result,
                                  !.result = result]
    /\ UNCHANGED <<pc, has_classifier, uploaded_files, documents, ques_gen_chunks,
                   ans_gen_chunks, batch_start, batch_chunks, question_futures,
                   all_questions, answer_futures, cursor, qa_pairs, session_qa_pairs,
                   status_text, ui_vars>>

\* _generate_answer(question, context_chunks) runs
CallGenerateAnswer ==
    /\ call.fn = "_generate_answer"
    /\ call.state = "called"
    /\ \E search \in SearchOutcomes(call.chunks, TopN), reply \in AnswerOutcomes,
          labels \in ClassifierOutcomes :
         LET relevant_chunks == get_relevant_chunks(UnitQuestion, call.chunks, TopN, search)
         IN  \E source \in source_fields(relevant_chunks),
                page \in page_fields(relevant_chunks) :
               call' = [call EXCEPT
                          !.state = "returned",
                          !.search_raised = call.chunks # <<>> /\ Raised(search),
                          !.selected = relevant_chunks,
                          !.result = generate_answer(UnitQuestion, call.chunks,
                                        has_classifier, search, reply, source, page, labels)]
    /\ UNCHANGED <<pc, has_classifier, uploaded_files, documents, ques_gen_chunks,
                   ans_gen_chunks, batch_start, batch_chunks, question_futures,
                   all_questions, answer_futures, cursor, qa_pairs, session_qa_pairs,
                   status_text, ui_vars>>

NextUnit == CallGetRelevantChunks \/ CallGenerateAnswer

SpecUnit == InitUnit /\ [][NextUnit]_vars


(***************************************************************************)
(* calculate_questions_per_chunk and _generate_questions called on their   *)
(* own.                                                                    *)
(***************************************************************************)
\* word counts on both sides of the thresholds of calculate_questions_per_chunk
UnitWords == {0, 1, 299, 300, 301, 499, 500, 501, 900}

\* a chunk of w words from 0-based page p
ElicitChunk(w, p) ==
    [words |-> w, page |-> p, page_number |-> p + 1, source |-> "a.pdf",
     file_path |-> TempFile("a.pdf"), piece |-> 1]

\* the num_questions generate_qa_pairs passes on (lines 196-200, 206)
UnitNumQuestions == {calculate_questions_per_chunk(ElicitChunk(w, 0)) : w \in UnitWords}

\* the texts the question call may return here: up to MaxUnitLines lines
UnitQuestionOutcomes ==
    {None} \cup {Some(Join(ls, <<"\n">>)) : ls \in SeqsUpTo(QLines, MaxUnitLines)}

ElicitCall == [fn |-> "", state |-> "", chunks |-> <<>>, num_questions |-> 0,
               invoked |-> FALSE, raised |-> FALSE, result |-> <<>>]

InitElicit ==
    /\ pc = "unit"
    /\ has_classifier = FALSE
    /\ uploaded_files = <<>>
    /\ documents = <<>>
    /\ Idle
    /\ NoRun
    /\ \/ \E w1, w2 \in UnitWords, p1, p2 \in 0..1 :
            call = [ElicitCall EXCEPT !.fn = "calculate_questions_per_chunk",
                                      !.state = "called",
                                      !.chunks = <<ElicitChunk(w1, p1), ElicitChunk(w2, p2)>>]
       \/ \E w \in {0, 100}, n \in UnitNumQuestions :
            call = [ElicitCall EXCEPT !.fn = "_generate_questions",
                                      !.state = "called",
                                      !.chunks = <<ElicitChunk(w, 0)>>,
                                      !.num_questions = n]

\* lines 205-206: calculate_questions_per_chunk(chunk) for each chunk of the list
CallCalculateQuestions ==
    /\ call.fn = "calculate_questions_per_chunk"
    /\ call.state = "called"
    /\ call' = [call EXCEPT
                  !.state = "returned",
                  !.result = [i \in DOMAIN call.chunks |->
                                 calculate_questions_per_chunk(call.chunks[i])]]
    /\ UNCHANGED <<pc, has_classifier, uploaded_files, documents, ques_gen_chunks,
                   ans_gen_chunks, batch_start, batch_chunks, question_futures,
                   all_questions, answer_futures, cursor, qa_pairs, session_qa_pairs,
                   status_text, ui_vars>>

\* _generate_questions(chunk, num_questions) runs: the text generation is invoked
\* unless the chunk is blank (lines 104-108)
CallGenerateQuestions ==
    /\ call.fn = "_generate_questions"
    /\ call.state = "called"
    /\ \E outcome \in UnitQuestionOutcomes :
         LET chunk == call.chunks[1]
             invoked == ~Blank(chunk)
         IN  call' = [call EXCEPT
                        !.state = "returned",
                        !.invoked = invoked,
                        !.raised = invoked /\ Raised(outcome),
                        !.result = generate_questions(chunk, call.num_questions, outcome)]
    /\ UNCHANGED <<pc, has_classifier, uploaded_files, documents, ques_gen_chunks,
                   ans_gen_chunks, batch_start, batch_chunks, question_futures,
                   all_questions, answer_futures, cursor, qa_pairs, session_qa_pairs,
                   status_text, ui_vars>>

NextElicit == CallCalculateQuestions \/ CallGenerateQuestions

SpecElicit == InitElicit /\ [][NextElicit]_vars


(***************************************************************************)
(* LoopioClassifier._load_hierarchy called on its own.                     *)
(* A dict is the sequence of its (key, value) items in insertion order; a  *)
(* cell of the table is None when blank (NaN) and Some(text) otherwise.    *)
(***************************************************************************)
\* k in d
DictHas(d, k) == \E i \in DOMAIN d : d[i][1] = k

\* d[k] for k in d
DictGet(d, k) == d[CHOOSE i \in DOMAIN d : d[i][1] = k][2]

\* d[k] = v: an existing key keeps its place
DictSet(d, k, v) ==
    IF DictHas(d, k) THEN [i \in DOMAIN d |-> IF d[i][1] = k THEN <<k, v>> ELSE d[i]]
    ELSE Append(d, <<k, v>>)

\* pd.notna(cell)
notna(cell) == IsSome(cell)

NoDefinition == "No definition provided."

\* the rows pd.read_excel may yield
TableRows ==
    [Stack : {None, Some("A"), Some("B")},
     Categories : {None, Some("X"), Some("Y")},
     Subcategories : {None, Some("s"), Some("t")},
     Definition : {None, Some("d")}]

\* what pd.read_excel may do: raise, or yield the rows of the sheet
ExcelOutcomes == {None} \cup {Some(rows) : rows \in SeqsUpTo(TableRows, MaxRows)}

\* lines 57-59: the state of the loop before the first row
HierarchyStart ==
    [hierarchy |-> <<>>, current_stack |-> "", current_category |-> "", raised |-> FALSE]

\* lines 62-71: one row of the loop; indexing hierarchy with a key it does not
\* hold raises KeyError
hierarchy_row(st, row) ==
    LET s1 == IF notna(row.Stack)
              THEN [st EXCEPT !.current_stack = row.Stack[1],
                              !.hierarchy = DictSet(@, row.Stack[1], <<>>)]
              ELSE st
        s2 == IF ~notna(row.Categories) THEN s1
              ELSE IF ~DictHas(s1.hierarchy, s1.current_stack)
                   THEN [s1 EXCEPT !.raised = TRUE]
              ELSE [s1 EXCEPT
                      !.current_category = row.Categories[1],
                      !.hierarchy =
                          DictSet(@, s1.current_stack,
                              DictSet(DictGet(@, s1.current_stack),
                                      row.Categories[1], <<>>))]
        s3 == IF s2.raised \/ ~notna(row.Subcategories) THEN s2
              ELSE IF \/ ~DictHas(s2.hierarchy, s2.current_stack)
                      \/ ~DictHas(DictGet(s2.hierarchy, s2.current_stack),
                                  s2.current_category)
                   THEN [s2 EXCEPT !.raised = TRUE]
              ELSE LET definition == IF notna(row.Definition) THEN row.Definition[1]
                                     ELSE NoDefinition
                       categories == DictGet(s2.hierarchy, s2.current_stack)
                       subcategories == DictGet(categories, s2.current_category)
                   IN  [s2 EXCEPT
                          !.hierarchy =
                              DictSet(@, s2.current_stack,
                                  DictSet(categories, s2.current_category,
                                      DictSet(subcategories, row.Subcategories[1],
                                              definition)))]
    IN  s3

\* lines 61-71: for _, row in df.iterrows(), stopping at the row that raises
RECURSIVE hierarchy_rows(_, _)
hierarchy_rows(st, rows) ==
    IF rows = <<>> \/ st.raised THEN st
    ELSE hierarchy_rows(hierarchy_row(st, Head(rows)), Tail(rows))

\* a line of hierarchy_str: its indentation, its label and its text
HierarchyLine(indent, label, text) == [indent |-> indent, label |-> label, text |-> text]

\* lines 79-81
subcategory_lines(subcategories) ==
    Flatten([i \in DOMAIN subcategories |->
        <<HierarchyLine(4, "Subcategory", subcategories[i][1]),
          HierarchyLine(6, "Definition", subcategories[i][2])>>])

\* lines 77-81
category_lines(categories) ==
    Flatten([i \in DOMAIN categories |->
        <<HierarchyLine(2, "Category", categories[i][1])>>
            \o subcategory_lines(categories[i][2])])

\* lines 74-82: the hierarchy rendered for the prompt
hierarchy_str(hierarchy) ==
    Flatten([i \in DOMAIN hierarchy |->
        <<HierarchyLine(0, "Stack", hierarchy[i][1])>> \o category_lines(hierarchy[i][2])])

\* line 86: the minimal hierarchy returned when loading raised
FallbackHierarchyStr ==
    <<HierarchyLine(0, "Stack", "Unclassified"),
      HierarchyLine(2, "Category", "General"),
      HierarchyLine(4, "Subcategory", "Other"),
      HierarchyLine(6, "Definition", "Default category for unclassified content.")>>

\* the dict hierarchy at the end of the loop, None when the try block raised
loaded_hierarchy(excel) ==
    IF Raised(excel) THEN None
    ELSE LET st == hierarchy_rows(HierarchyStart, excel[1])
         IN  IF st.raised THEN None ELSE Some(st.hierarchy)

\* LoopioClassifier._load_hierarchy; excel is what pd.read_excel does
load_hierarchy(excel) ==
    LET hierarchy == loaded_hierarchy(excel)
    IN  IF Raised(hierarchy) THEN FallbackHierarchyStr ELSE hierarchy_str(hierarchy[1])

HierarchyCall == [fn |-> "_load_hierarchy", state |-> "called", excel |-> None,
                  hierarchy |-> None, result |-> <<>>]

InitHierarchy ==
    /\ pc = "unit"
    /\ has_classifier = TRUE
    /\ uploaded_files = <<>>
    /\ documents = <<>>
    /\ Idle
    /\ NoRun
    /\ \E excel \in ExcelOutcomes : call = [HierarchyCall EXCEPT !.excel = excel]

\* _load_hierarchy(excel_path) runs
CallLoadHierarchy ==
    /\ call.fn = "_load_hierarchy"
    /\ call.state = "called"
    /\ call' = [call EXCEPT !.state = "returned",
                            !.hierarchy = loaded_hierarchy(call.excel),
                            !.result = load_hierarchy(call.excel)]
    /\ UNCHANGED <<pc, has_classifier, uploaded_files, documents, ques_gen_chunks,
                   ans_gen_chunks, batch_start, batch_chunks, question_futures,
                   all_questions, answer_futures, cursor, qa_pairs, session_qa_pairs,
                   status_text, ui_vars>>

NextHierarchy == CallLoadHierarchy

SpecHierarchy == InitHierarchy /\ [][NextHierarchy]_vars


(***************************************************************************)
(* PDFLoader.load called on its own, its worker threads included.          *)
(***************************************************************************)
\* paths a caller may hand over
LoadablePaths ==
    <<[dir |-> "", name |-> "temp_a.pdf"], [dir |-> "in/", name |-> "b.pdf"],
      [dir |-> "in/", name |-> "c.pdf"], [dir |-> "out/", name |-> "d.pdf"]>>

\* the lists of up to MaxPaths distinct paths
PathLists ==
    {[i \in DOMAIN idx |-> LoadablePaths[idx[i]]] :
        idx \in {f \in SeqsUpTo(1..(MaxPaths + 1), MaxPaths) :
                    \A i, j \in DOMAIN f : f[i] = f[j] => i = j}}

LoaderCall == [fn |-> "load", state |-> "", file_paths |-> <<>>, futures |-> <<>>,
               cursor |-> 0, all_docs |-> <<>>, result |-> <<>>]

InitLoader ==
    /\ pc = "unit"
    /\ has_classifier = FALSE
    /\ uploaded_files = <<>>
    /\ documents = <<>>
    /\ Idle
    /\ NoRun
    /\ \E file_paths \in PathLists :
         call = [LoaderCall EXCEPT !.state = "called", !.file_paths = file_paths]

\* lines 30, 47-48: all_docs = {} and executor.map submits one load_single_pdf
\* task per path
LoaderSubmit ==
    /\ call.fn = "load"
    /\ call.state = "called"
    /\ call' = [call EXCEPT
                  !.state = "collecting",
                  !.futures = [i \in DOMAIN call.file_paths |->
                                  [file_path |-> call.file_paths[i], state |-> "queued",
                                   outcome |-> None, result |-> <<>>]]]
    /\ UNCHANGED <<pc, has_classifier, uploaded_files, documents, ques_gen_chunks,
                   ans_gen_chunks, batch_start, batch_chunks, question_futures,
                   all_questions, answer_futures, cursor, qa_pairs, session_qa_pairs,
                   status_text, ui_vars>>

\* a worker runs load_single_pdf(file_path) (lines 32-45)
LoadSinglePdf(i) ==
    /\ call.fn = "load"
    /\ call.state = "collecting"
    /\ call.futures[i].state = "queued"
    /\ \E outcome \in PdfOutcomes :
         call' = [call EXCEPT
                    !.futures[i] =
                        [@ EXCEPT !.state = "done", !.outcome = outcome,
                                  !.result = load_single_pdf(call.futures[i].file_path,
                                                             outcome)]]
    /\ UNCHANGED <<pc, has_classifier, uploaded_files, documents, ques_gen_chunks,
                   ans_gen_chunks, batch_start, batch_chunks, question_futures,
                   all_questions, answer_futures, cursor, qa_pairs, session_qa_pairs,
                   status_text, ui_vars>>

\* LoaderCollectNext with a failed file ending the collection
LoaderCollectNext_StopAtFailure ==
    /\ call.fn = "load"
    /\ call.state = "collecting"
    /\ call.cursor < Len(call.futures)
    /\ FutureDone(call.futures[call.cursor + 1])
    /\ LET result == call.futures[call.cursor + 1].result
       IN  call' = IF Truthy(result[2])
                   THEN [call EXCEPT !.cursor = @ + 1,
                                     !.all_docs = DictSet(@, result[1], result[2][1])]
                   ELSE [call EXCEPT !.cursor = Len(call.futures)]
    /\ UNCHANGED <<pc, has_classifier, uploaded_files, documents, ques_gen_chunks,
                   ans_gen_chunks, batch_start, batch_chunks, question_futures,
                   all_questions, answer_futures, cursor, qa_pairs, session_qa_pairs,
                   status_text, ui_vars>>

\* lines 50-52: the iterator of executor.map yields the next result, in the order
\* of file_paths, once its task has finished
LoaderCollectNext ==
    /\ call.fn = "load"
    /\ call.state = "collecting"
    /\ call.cursor < Len(call.futures)
    /\ FutureDone(call.futures[call.cursor + 1])
    /\ LET result == call.futures[call.cursor + 1].result
       IN  call' = [call EXCEPT
                      !.cursor = @ + 1,
                      !.all_docs = IF Truthy(result[2])
                                   THEN DictSet(@, result[1], result[2][1]) ELSE @]
    /\ UNCHANGED <<pc, has_classifier, uploaded_files, documents, ques_gen_chunks,
                   ans_gen_chunks, batch_start, batch_chunks, question_futures,
                   all_questions, answer_futures, cursor, qa_pairs, session_qa_pairs,
                   status_text, ui_vars>>

\* lines 52-54: the pool is shut down and all_docs returned
LoaderReturn ==
    /\ call.fn = "load"
    /\ call.state = "collecting"
    /\ call.cursor = Len(call.futures)
    /\ PoolDrained(call.futures)
    /\ call' = [call EXCEPT !.state = "returned", !.result = call.all_docs]
    /\ UNCHANGED <<pc, has_classifier, uploaded_files, documents, ques_gen_chunks,
                   ans_gen_chunks, batch_start, batch_chunks, question_futures,
                   all_questions, answer_futures, cursor, qa_pairs, session_qa_pairs,
                   status_text, ui_vars>>

NextLoader ==
    \/ LoaderSubmit
    \/ \E i \in DOMAIN call.futures : LoadSinglePdf(i)
    \/ LoaderCollectNext
    \/ LoaderReturn

SpecLoader == InitLoader /\ [][NextLoader]_vars


(***************************************************************************)
(* Reading a page field back, to state the properties of it.               *)
(***************************************************************************)
DigitValue(ch) == CHOOSE d \in 0..9 : Digits[d + 1] = ch

\* int(s) for a non-empty sequence of digits
RECURSIVE StrToInt(_)
StrToInt(s) ==
    IF Len(s) = 1 THEN DigitValue(s[1])
    ELSE 10 * StrToInt(SubSeq(s, 1, Len(s) - 1)) + DigitValue(s[Len(s)])

\* the page numbers a page field lists, in the order it lists them
PagesListed(page) ==
    IF page = <<>> THEN <<>>
    ELSE LET parts == SplitOn(page, ",")
         IN  [i \in DOMAIN parts |-> StrToInt(Strip(parts[i]))]

StrictlyAscending(nums) == \A i, j \in DOMAIN nums : i < j => nums[i] < nums[j]

\* the pairs the finished synthesis tasks have built
BuiltPairs == {a \in DOMAIN answer_futures : IsSome(answer_futures[a].pair)}

\* the pairs of the futures from index a on, in order
RECURSIVE PairsFrom(_)
PairsFrom(a) ==
    IF a > Len(answer_futures) THEN <<>>
    ELSE (IF answer_futures[a].answer_raised THEN <<>> ELSE answer_futures[a].pair)
         \o PairsFrom(a + 1)

(***************************************************************************)
(* C1: no pair with an empty answer is emitted: once generate_qa_pairs has *)
(* put a pair in its result, the pair's answer is not the empty string.    *)
(***************************************************************************)
NoEmptyAnswerEmitted == \A i \in DOMAIN qa_pairs : qa_pairs[i].answer # <<>>

(***************************************************************************)
(* C2: the page field of the pair _generate_answer returns lists every     *)
(* distinct page of the selected chunks exactly once, in ascending numeric *)
(* order.                                                                  *)
(***************************************************************************)
PageFieldAscending ==
    (call.fn = "_generate_answer" /\ call.state = "returned" /\ IsSome(call.result))
    => LET listed == PagesListed(call.result[1].page)
       IN  /\ Range(listed) = {c.page + 1 : c \in Range(call.selected)}
           /\ StrictlyAscending(listed)

(***************************************************************************)
(* C3 as claimed: no synthesis task has started while an elicitation task  *)
(* is unfinished, and no classification call is in progress while a        *)
(* synthesis task is unfinished.                                           *)
(***************************************************************************)
SynthesisStarted(a) == answer_futures[a].state \in {"running", "classifying", "done"}

ElicitationBarrier ==
    \A a \in DOMAIN answer_futures :
        SynthesisStarted(a) =>
            \A i \in DOMAIN question_futures : question_futures[i].state = "done"

StagesStrictlySequential ==
    /\ ElicitationBarrier
    /\ \A a \in DOMAIN answer_futures :
          answer_futures[a].state = "classifying" =>
              \A b \in DOMAIN answer_futures : answer_futures[b].state = "done"

(***************************************************************************)
(* C3 as amended: no synthesis task starts before every elicitation task   *)
(* has completed and its questions are in all_questions; classification is *)
(* no stage of its own: a classify call is in progress only inside a       *)
(* synthesis task that has built its pair, and generate_qa_pairs returns   *)
(* only when every task of both pools, classification included, is done.   *)
(***************************************************************************)
ElicitationBeforeSynthesisClassifyInside ==
    /\ ElicitationBarrier
    /\ answer_futures # <<>> =>
          all_questions = Flatten([i \in DOMAIN question_futures |->
                                      question_futures[i].result])
    /\ \A a \in DOMAIN answer_futures :
          answer_futures[a].state = "classifying" =>
              has_classifier /\ IsSome(answer_futures[a].draft)
    /\ pc = "returned" =>
          /\ \A i \in DOMAIN question_futures : question_futures[i].state = "done"
          /\ \A a \in DOMAIN answer_futures : answer_futures[a].state = "done"

\* a classification is in progress while another synthesis task has not started
ClassifyingBesideQueuedSynthesis ==
    \E a, b \in DOMAIN answer_futures :
        /\ answer_futures[a].state = "classifying"
        /\ answer_futures[b].state = "queued"

(***************************************************************************)
(* C4: whatever calls raise, every task of both pools runs to completion   *)
(* and is aggregated: when generate_qa_pairs returns, all_questions holds  *)
(* the questions of every elicitation task, every synthesis task is done,  *)
(* qa_pairs holds exactly the pairs of the synthesis tasks whose           *)
(* generation did not raise, and the call can always go on to its return.  *)
(***************************************************************************)
InGenerate == pc \in {"generate", "collect_questions", "collect_answers"}

TaskIsolation ==
    /\ InGenerate => ENABLED Generate
    /\ pc = "returned" =>
          /\ \A i \in DOMAIN question_futures : question_futures[i].state = "done"
          /\ all_questions = Flatten([i \in DOMAIN question_futures |->
                                         question_futures[i].result])
          /\ Len(answer_futures) = Len(all_questions)
          /\ \A a \in DOMAIN answer_futures :
                /\ answer_futures[a].state = "done"
                /\ answer_futures[a].question = all_questions[a]
                /\ ~answer_futures[a].answer_raised => IsSome(answer_futures[a].pair)
          /\ qa_pairs = PairsFrom(1)

\* a run in which an elicitation call and a synthesis call raised and a sibling
\* of the failed synthesis task still delivered its pair
SiblingSurvivesFailure ==
    /\ pc = "returned"
    /\ \E i \in DOMAIN question_futures : question_futures[i].raised
    /\ \E a, b \in DOMAIN answer_futures :
          /\ a < b
          /\ answer_futures[a].answer_raised
          /\ ~answer_futures[b].answer_raised
    /\ Len(qa_pairs) = 1


(***************************************************************************)
(* C5: _get_relevant_chunks(question, pool, K) returns exactly min(K, M)   *)
(* chunks of a pool of M, every one a member of the pool and none of them  *)
(* twice; an empty pool gives an empty result.                             *)
(***************************************************************************)
SelectReturned == call.fn = "_get_relevant_chunks" /\ call.state = "returned"

SelectorBound ==
    SelectReturned =>
        /\ Len(call.result) = Min(call.top_n, Len(call.chunks))
        /\ Range(call.result) \subseteq Range(call.chunks)
        /\ \A i, j \in DOMAIN call.result : call.result[i] = call.result[j] => i = j
        /\ call.chunks = <<>> => call.result = <<>>

\* the selector has cut a pool that is larger than top_n, after its search raised
SelectorCutsLargePool ==
    /\ SelectReturned
    /\ call.search_raised
    /\ 0 < call.top_n
    /\ call.top_n < Len(call.chunks)
    /\ Len(call.result) = call.top_n

(***************************************************************************)
(* C6: when building the index or searching it raises, _get_relevant_chunks *)
(* returns the first min(K, M) chunks of the pool in the pool's order.     *)
(***************************************************************************)
SelectorFallback ==
    (SelectReturned /\ call.search_raised) =>
        /\ Len(call.result) = Min(call.top_n, Len(call.chunks))
        /\ \A i \in DOMAIN call.result : call.result[i] = call.chunks[i]

\* the fallback has returned the first two of at least three chunks
FallbackTookFirstTwo ==
    /\ SelectReturned
    /\ call.search_raised
    /\ call.top_n = 2
    /\ Len(call.chunks) >= 3
    /\ call.result = <<call.chunks[1], call.chunks[2]>>

(***************************************************************************)
(* C7: when the classifier's text generation raises, the pair being        *)
(* synthesized is still built, with the labels Unclassified / General /    *)
(* Other, and generate_qa_pairs returns it.                                *)
(***************************************************************************)
HasDefaultLabels(pair) ==
    /\ pair.stack = <<"U", "n", "c", "l", "a", "s", "s", "i", "f", "i", "e", "d">>
    /\ pair.category = <<"G", "e", "n", "e", "r", "a", "l">>
    /\ pair.subcategory = <<"O", "t", "h", "e", "r">>

EmittedCount(pair) == Cardinality({i \in DOMAIN qa_pairs : qa_pairs[i] = pair})

ClassifierFailureGivesDefault ==
    \A a \in DOMAIN answer_futures :
        (answer_futures[a].state = "done" /\ answer_futures[a].classify_raised) =>
            /\ IsSome(answer_futures[a].pair)
            /\ HasDefaultLabels(answer_futures[a].pair[1])
            /\ pc = "returned" => EmittedCount(answer_futures[a].pair[1]) >= 1

\* a returned result holding a pair whose classification raised beside a pair
\* that was classified
DefaultBesideClassified ==
    /\ pc = "returned"
    /\ Len(qa_pairs) = 2
    /\ \E a, b \in DOMAIN answer_futures :
          /\ answer_futures[a].classify_raised
          /\ IsSome(answer_futures[b].pair)
          /\ ~HasDefaultLabels(answer_futures[b].pair[1])

(***************************************************************************)
(* C8: a run with no documents, no question chunks or no elicited question *)
(* ends with an empty result: process of no documents is ([], []), no      *)
(* synthesis task is ever submitted, the run is never stuck before its     *)
(* return, and generate_qa_pairs returns [].                               *)
(***************************************************************************)
NothingToAnswer ==
    \/ documents = <<>>
    \/ (pc \notin {"process", "processed"} /\ batch_chunks = <<>>)
    \/ (pc \in {"collect_answers", "returned"} /\ all_questions = <<>>)

EmptyRunEndsEmpty ==
    /\ (documents = <<>> /\ pc # "process") =>
          (ques_gen_chunks = <<>> /\ ans_gen_chunks = <<>>)
    /\ NothingToAnswer =>
          /\ answer_futures = <<>>
          /\ qa_pairs = <<>>
          /\ pc # "returned" => ENABLED Next

\* generate_qa_pairs has returned from question chunks that yielded no question
ReturnedWithoutQuestions ==
    /\ pc = "returned"
    /\ batch_chunks # <<>>
    /\ all_questions = <<>>
    /\ qa_pairs = <<>>

(***************************************************************************)
(* C9: a run that had nothing to do (no chunks, or no question elicited)   *)
(* ends with an outcome the caller can tell from that of a run in which    *)
(* questions were answered and every one of them produced no pair.         *)
(***************************************************************************)
\* what main shows and keeps when the handler has finished
Outcome == <<status_text, session_qa_pairs>>

\* the outcome of a run whose every synthesis task returned None
AllDroppedOutcome == <<Status("Completed! Generated", 0), <<>>>>

NothingToDo == ques_gen_chunks = <<>> \/ all_questions = <<>>

NothingToDoDistinguishable ==
    (pc = "completed" /\ NothingToDo) => Outcome # AllDroppedOutcome

\* a finished run in which questions were asked and every synthesis task failed
AllDroppedRun ==
    /\ pc = "completed"
    /\ answer_futures # <<>>
    /\ \A a \in DOMAIN answer_futures : answer_futures[a].answer_raised
    /\ Outcome = AllDroppedOutcome

(***************************************************************************)
(* C10: every page listed in the page field of a built pair is the 1-based *)
(* page number, as the loader counted it, of a chunk selected as context   *)
(* for that pair, and lies within the pages of that chunk's file; every    *)
(* chunk carries the page number of the document it was cut from.          *)
(***************************************************************************)
PagesOfFile(file_path) ==
    Cardinality({i \in DOMAIN documents : documents[i].file_path = file_path})

ChunkFromDocument(chunk) ==
    \E i \in DOMAIN documents :
        /\ documents[i].file_path = chunk.file_path
        /\ documents[i].source = chunk.source
        /\ documents[i].page_number = chunk.page_number
        /\ documents[i].page = chunk.page

PageProvenance ==
    /\ \A c \in Range(ques_gen_chunks) \cup Range(ans_gen_chunks) : ChunkFromDocument(c)
    /\ \A i \in DOMAIN documents :
          \* the loader numbers the pages of a file 1, 2, ... in order
          documents[i].page_number =
              Cardinality({j \in 1..i : documents[j].file_path = documents[i].file_path})
    /\ \A a \in BuiltPairs :
          LET f == answer_futures[a]
              listed == PagesListed(f.pair[1].page)
          IN  /\ listed # <<>>
              /\ \A k \in DOMAIN listed :
                    \E c \in f.context :
                        /\ c \in Range(ans_gen_chunks)
                        /\ c.page_number = listed[k]
                        /\ 1 <= listed[k]
                        /\ listed[k] <= PagesOfFile(c.file_path)
              /\ \A c \in f.context : c.page_number \in Range(listed)
    /\ \A i \in DOMAIN session_qa_pairs :
          \E a \in BuiltPairs : answer_futures[a].pair[1] = session_qa_pairs[i]

\* main has kept a pair whose context is the second of two chunks cut from page 2
\* of a file whose first page is blank
PairFromSecondChunkOfPageTwo ==
    /\ pc = "completed"
    /\ session_qa_pairs # <<>>
    /\ Len(ans_gen_chunks) = 2
    /\ \A c \in Range(ans_gen_chunks) : c.page_number = 2
    /\ \E a \in BuiltPairs : PagesListed(answer_futures[a].pair[1].page) = <<2>>


(***************************************************************************)
(* C11: the number of questions asked for a chunk follows its word count   *)
(* w alone: 2 when w <= 300, 3 when 300 < w <= 500, 4 when w > 500, and    *)
(* a chunk with at least as many words is never asked fewer questions.     *)
(***************************************************************************)
CalculateReturned ==
    call.fn = "calculate_questions_per_chunk" /\ call.state = "returned"

QuestionsForWords(w) == IF w <= 300 THEN 2 ELSE IF w <= 500 THEN 3 ELSE 4

QuestionsPerChunkTable ==
    CalculateReturned =>
        /\ \A i \in DOMAIN call.chunks :
              call.result[i] = QuestionsForWords(call.chunks[i].words)
        /\ \A i, j \in DOMAIN call.chunks :
              call.chunks[i].words <= call.chunks[j].words
                  => call.result[i] <= call.result[j]

\* chunks of 300 and 301 words on different pages were asked 2 and 3 questions
ThresholdStraddled ==
    /\ CalculateReturned
    /\ call.chunks[1].words = 300 /\ call.chunks[2].words = 301
    /\ call.chunks[1].page # call.chunks[2].page
    /\ call.result = <<2, 3>>

(***************************************************************************)
(* C12: _generate_questions always returns a sequence: for a chunk whose   *)
(* content is empty or whitespace-only it returns the empty sequence       *)
(* without invoking the text generation, and when the generation call      *)
(* raises it returns the empty sequence.                                   *)
(***************************************************************************)
ElicitReturned == call.fn = "_generate_questions" /\ call.state = "returned"

ElicitorNeverRaises ==
    /\ (call.fn = "_generate_questions" /\ call.state = "called")
          => ENABLED CallGenerateQuestions
    /\ ElicitReturned =>
          /\ Blank(call.chunks[1]) => (~call.invoked /\ call.result = <<>>)
          /\ call.raised => call.result = <<>>

\* a blank chunk came back empty with the text generation not invoked
BlankChunkReturnedEmpty ==
    /\ ElicitReturned
    /\ Blank(call.chunks[1])
    /\ ~call.invoked
    /\ call.result = <<>>

(***************************************************************************)
(* C15: _generate_questions(chunk, num_questions) returns at most          *)
(* num_questions questions, whatever the text generation answers.          *)
(***************************************************************************)
ElicitorBounded ==
    ElicitReturned => Len(call.result) <= call.num_questions


(***************************************************************************)
(* C13: loading the taxonomy table forward-fills blank cells: a row with a *)
(* subcategory is filed under the most recent non-blank Stack and the most *)
(* recent non-blank Category at or above it, and after the last row the    *)
(* entry of every such row is in the nested mapping with its definition    *)
(* (unless a later row files the same stack, category and subcategory).    *)
(***************************************************************************)
HierarchyReturned == call.fn = "_load_hierarchy" /\ call.state = "returned"

\* the most recent non-blank cell of column col at or above row i, None if none
RECURSIVE FilledFrom(_, _, _)
FilledFrom(rows, col, i) ==
    IF i = 0 THEN None
    ELSE IF IsSome(rows[i][col]) THEN rows[i][col]
    ELSE FilledFrom(rows, col, i - 1)

\* the row has a subcategory and a stack and a category to be filed under
Filed(rows, i) ==
    /\ IsSome(rows[i].Subcategories)
    /\ IsSome(FilledFrom(rows, "Stack", i))
    /\ IsSome(FilledFrom(rows, "Categories", i))

\* where forward fill files row i
FiledUnder(rows, i) ==
    <<FilledFrom(rows, "Stack", i)[1], FilledFrom(rows, "Categories", i)[1],
      rows[i].Subcategories[1]>>

DefinitionOf(row) == IF IsSome(row.Definition) THEN row.Definition[1] ELSE NoDefinition

\* the mapping holds definition under stack -> category -> subcategory
HasEntry(hierarchy, key, definition) ==
    /\ DictHas(hierarchy, key[1])
    /\ DictHas(DictGet(hierarchy, key[1]), key[2])
    /\ DictHas(DictGet(DictGet(hierarchy, key[1]), key[2]), key[3])
    /\ DictGet(DictGet(DictGet(hierarchy, key[1]), key[2]), key[3]) = definition

ForwardFillKeepsEveryRow ==
    (HierarchyReturned /\ IsSome(call.excel)) =>
        LET rows == call.excel[1]
        IN  \A i \in DOMAIN rows :
              (/\ Filed(rows, i)
               /\ \A j \in (i + 1)..Len(rows) :
                     ~(Filed(rows, j) /\ FiledUnder(rows, j) = FiledUnder(rows, i)))
                => /\ IsSome(call.hierarchy)
                   /\ HasEntry(call.hierarchy[1], FiledUnder(rows, i),
                               DefinitionOf(rows[i]))


(***************************************************************************)
(* C14: PDFLoader.load isolates the files: whatever the order in which the *)
(* concurrent loads finish and whichever of them raise, the call returns,  *)
(* and the returned mapping holds exactly the paths whose load succeeded   *)
(* with at least one page, each mapped to its pages in order, page_number  *)
(* counted from 1 and source the base name of the path.                    *)
(***************************************************************************)
LoaderReturned == call.fn = "load" /\ call.state = "returned"

\* the pages expected of a path whose PDF has the given page texts
ExpectedPages(file_path, pages) ==
    [k \in 1..Len(pages) |->
        [words |-> pages[k], page |-> k - 1, page_number |-> k,
         source |-> file_path.name, file_path |-> file_path]]

\* the task of the i-th path succeeded with at least one page
LoadedSomePages(i) ==
    IsSome(call.futures[i].outcome) /\ call.futures[i].outcome[1] # <<>>

PerFileIsolation ==
    /\ (call.fn = "load" /\ call.state \in {"called", "collecting"}) => ENABLED NextLoader
    /\ LoaderReturned =>
          /\ \A i \in DOMAIN call.futures :
                LoadedSomePages(i) <=> DictHas(call.result, call.file_paths[i])
          /\ \A i \in DOMAIN call.futures :
                LoadedSomePages(i) =>
                    DictGet(call.result, call.file_paths[i])
                        = ExpectedPages(call.file_paths[i], call.futures[i].outcome[1])
          /\ \A m, n \in DOMAIN call.result :
                call.result[m][1] = call.result[n][1] => m = n
          /\ call.result
                = PDFLoader_load(call.file_paths,
                                 [i \in DOMAIN call.futures |-> call.futures[i].outcome])

\* the first file's load raised and the second file, given with a directory,
\* came back alone with its two pages
SecondFileLoadedBesideFailure ==
    /\ LoaderReturned
    /\ Len(call.futures) = 2
    /\ Raised(call.futures[1].outcome)
    /\ call.file_paths[2].dir # ""
    /\ Len(call.futures[2].outcome[1]) = 2
    /\ Len(call.result) = 1
    /\ call.result[1][1] = call.file_paths[2]


(***************************************************************************)
(* C16: the result of generate_qa_pairs does not depend on the order in    *)
(* which the tasks finish: at every point of every interleaving the        *)
(* question list is the concatenation, in submission order, of the         *)
(* questions of the chunks collected so far, and the pairs are those of    *)
(* the questions collected so far, in the order of the questions, each     *)
(* once.                                                                   *)
(***************************************************************************)
\* the questions of the first n elicitation tasks, in submission order
QuestionsUpTo(n) == Flatten([i \in 1..n |-> question_futures[i].result])

\* the pairs of the first n synthesis tasks, in submission order
PairsUpTo(n) == Flatten([a \in 1..n |-> answer_futures[a].pair])

CompletionOrderIndependence ==
    /\ pc = "collect_questions" => all_questions = QuestionsUpTo(cursor)
    /\ pc \in {"collect_answers", "returned"} =>
          /\ all_questions = QuestionsUpTo(Len(question_futures))
          /\ Len(answer_futures) = Len(all_questions)
          /\ qa_pairs = PairsUpTo(cursor)
          /\ \A a \in DOMAIN answer_futures :
                IsSome(answer_futures[a].pair)
                    => answer_futures[a].pair[1].question = all_questions[a]

\* two chunks gave one question each; the task of the second question has
\* finished with a pair while the task of the first is still unfinished and the
\* collecting loop waits for it
SecondAnswerFinishedFirst ==
    /\ pc = "collect_answers"
    /\ Len(question_futures) = 2
    /\ Len(question_futures[1].result) = 1
    /\ Len(question_futures[2].result) = 1
    /\ question_futures[1].result # question_futures[2].result
    /\ cursor = 0
    /\ ~FutureDone(answer_futures[1])
    /\ IsSome(answer_futures[2].pair)


(***************************************************************************)
(* C17: the run handler of main(): Generate can be pressed only while      *)
(* processing and completed are both False; when the handler has finished, *)
(* whether it succeeded, found no chunks or raised at any step, processing *)
(* is False, no temp file it created is left, completed is True exactly    *)
(* when nothing raised, and Generate is not available again before Reset;  *)
(* Reset leaves qa_pairs empty and both flags False.                       *)
(***************************************************************************)
HandlerFinished == pc \in {"finished", "finished_failed"}

RunHandlerContract ==
    /\ ENABLED PressGenerate => (~processing /\ ~completed)
    /\ HandlerFinished =>
          /\ ~processing
          /\ disk = {}
          /\ completed <=> pc = "finished"
          /\ generate_disabled
    /\ pc = "reset" => (session_qa_pairs = <<>> /\ ~processing /\ ~completed)

====
